---- MODULE Spec2Model ----
(***************************************************************************)
(* Model of b2bi-oidc-proxy.go: the HTTP reverse proxy that forwards POST  *)
(* requests on /token and /introspection to a backend and, on /token,      *)
(* copies access_token into id_token in the JSON body of the answer.       *)
(*                                                                         *)
(* One request is followed from the moment the listener hands it to the   *)
(* handler until the handler returns; pc is the handler's position.        *)
(* Requests share no mutable state (the configuration is read-only), so    *)
(* one handler activation at a time shows everything a request can do.     *)
(***************************************************************************)
EXTENDS Integers, Sequences, FiniteSets, TLC

VARIABLES
    config,           \* Config read by main, plus the -d flag; fixed at start
    pc,               \* position of the handler
    route,            \* pattern the request was dispatched on
    r,                \* inbound *http.Request: Method, Header, Body
    body,             \* local `body`: inbound body, then the backend's body
    backendReq,       \* outbound *http.Request built by the handler
    backendResponse,  \* *http.Response returned by client.Do
    bodyStream,       \* state of backendResponse.Body (an io.ReadCloser)
    responseBody,     \* local `responseBody`
    w,                \* http.ResponseWriter: what the caller is sent
    backendCalls,     \* number of client.Do invocations of this request
    modifierCalls,    \* number of responseBodyModifier invocations
    stderr,           \* lines written to the diagnostic stream
    trace             \* steps the handler has executed, in order

vars == <<config, pc, route, r, body, backendReq, backendResponse, bodyStream,
          responseBody, w, backendCalls, modifierCalls, stderr, trace>>

----------------------------------------------------------------------------
(* Bounds of the model *)

\* expires_in values sent by the backend range over 0..MaxExpires
MaxExpires == 1

----------------------------------------------------------------------------
(* net/http status codes used by the handler *)

StatusOK == 200
StatusMethodNotAllowed == 405
StatusInternalServerError == 500

----------------------------------------------------------------------------
(* JSON values and bodies *)

\* Names of the members of a JSON object the model distinguishes: the five
\* json tags of TokenResponse and one name TokenResponse does not know.
\* An object is a map from names to values: names are unique and spelled as
\* the tags are (encoding/json also accepts a tag in another letter case;
\* such names are not among the ones the model sends).
FieldNames == {"access_token", "refresh_token", "token_type", "expires_in", "id_token"}
MemberNames == FieldNames \cup {"scope"}

\* A member of a JSON object: absent, null, a string, an integral number or
\* a number with a fractional part (n + 1/2).
Absent == [t |-> "absent", s |-> "", n |-> 0]
Null == [t |-> "null", s |-> "", n |-> 0]
Str(x) == [t |-> "string", s |-> x, n |-> 0]
Num(i) == [t |-> "number", s |-> "", n |-> i]
Frac(i) == [t |-> "fraction", s |-> "", n |-> i]

NoMembers == [k \in MemberNames |-> Absent]

\* A byte string as the program sees it: text that is not JSON ("raw"), a JSON
\* document (null, a scalar or array, an object with its members), the text
\* http.Error writes ("error"), or nothing at all ("none", a nil slice).
RawBody(x) == [kind |-> "raw", text |-> x, detail |-> "", members |-> NoMembers]
JsonNull == [kind |-> "json-null", text |-> "", detail |-> "", members |-> NoMembers]
JsonScalar(x) == [kind |-> "json-scalar", text |-> x, detail |-> "", members |-> NoMembers]
JsonObject(m) == [kind |-> "json-object", text |-> "", detail |-> "", members |-> m]
ErrorBody(msg, err) == [kind |-> "error", text |-> msg, detail |-> err, members |-> NoMembers]
NoBody == [kind |-> "none", text |-> "", detail |-> "", members |-> NoMembers]

----------------------------------------------------------------------------
(* TokenResponse and the encoding/json calls made on it *)

\* var responseStruct TokenResponse: every field at its zero value
ZeroTokenResponse ==
    [AccessToken |-> "", RefreshToken |-> "", TokenType |-> "", ExpiresIn |-> 0, IdToken |-> ""]

\* Go type of the struct field a json tag decodes into
FieldType(k) == IF k = "expires_in" THEN "int" ELSE "string"

\* Can the member value v be stored in a field of Go type ty?  null and an
\* absent member leave the field alone; a string needs a string field; a
\* number needs an int field and no fractional part.
Decodes(v, ty) ==
    \/ v.t \in {"absent", "null"}
    \/ v.t = "string" /\ ty = "string"
    \/ v.t = "number" /\ ty = "int"

StringField(v) == IF v.t = "string" THEN v.s ELSE ""
IntField(v) == IF v.t = "number" THEN v.n ELSE 0

\* json.Unmarshal(body, &responseStruct) on a zero TokenResponse: err is ""
\* for nil.  Text that is not JSON is a syntax error; a JSON value that is
\* not an object, or a member of the wrong type, is an UnmarshalTypeError;
\* JSON null decodes to the untouched struct; members TokenResponse has no
\* field for are skipped.
Unmarshal(b) ==
    CASE b.kind = "json-object" ->
           IF \A k \in FieldNames : Decodes(b.members[k], FieldType(k))
           THEN [err |-> "",
                 val |-> [AccessToken  |-> StringField(b.members["access_token"]),
                          RefreshToken |-> StringField(b.members["refresh_token"]),
                          TokenType    |-> StringField(b.members["token_type"]),
                          ExpiresIn    |-> IntField(b.members["expires_in"]),
                          IdToken      |-> StringField(b.members["id_token"])]]
           ELSE [err |-> "json: cannot unmarshal into Go struct field", val |-> ZeroTokenResponse]
      [] b.kind = "json-null" -> [err |-> "", val |-> ZeroTokenResponse]
      [] b.kind = "json-scalar" ->
           [err |-> "json: cannot unmarshal into Go value of type main.TokenResponse",
            val |-> ZeroTokenResponse]
      [] OTHER -> [err |-> "invalid character or unexpected end of JSON input",
                   val |-> ZeroTokenResponse]

\* json.Marshal(responseStruct): an object with exactly the five tagged
\* members (no omitempty), never an error for this struct.
Marshal(s) ==
    JsonObject([k \in MemberNames |->
        CASE k = "access_token"  -> Str(s.AccessToken)
          [] k = "refresh_token" -> Str(s.RefreshToken)
          [] k = "token_type"    -> Str(s.TokenType)
          [] k = "expires_in"    -> Num(s.ExpiresIn)
          [] k = "id_token"      -> Str(s.IdToken)
          [] OTHER               -> Absent])

\* The modifier without line 48: the struct is re-encoded as decoded.
ModifierWithoutCopy(b) ==
    LET parsed == Unmarshal(b)
    IN  IF parsed.err # ""
        THEN [err |-> parsed.err, out |-> NoBody]
        ELSE [err |-> "", out |-> Marshal(parsed.val)]

\* accessTokenToIdTokenResponseBodyModifier(body) == (bytes, error)
accessTokenToIdTokenResponseBodyModifier(b) ==
    LET parsed == Unmarshal(b)
        responseStruct == [parsed.val EXCEPT !.IdToken = parsed.val.AccessToken]
    IN  IF parsed.err # ""
        THEN [err |-> parsed.err, out |-> NoBody]
        ELSE [err |-> "", out |-> Marshal(responseStruct)]

----------------------------------------------------------------------------
(* http.ResponseWriter *)

\* status 0: no header written yet; contentType "unset": no Content-Type key
NewResponseWriter == [status |-> 0, contentType |-> "unset", body |-> NoBody, failed |-> FALSE]

\* http.Error(w, msg + err, code): plain-text Content-Type, WriteHeader(code),
\* then the message.
HttpError(wr, msg, err, code) ==
    [wr EXCEPT !.status = code,
               !.contentType = "text/plain; charset=utf-8",
               !.body = ErrorBody(msg, err)]

\* w.Header().Set("Content-Type", v)
SetContentType(wr, v) == [wr EXCEPT !.contentType = v]

\* w.Write(b) with no earlier WriteHeader: net/http first sends
\* WriteHeader(http.StatusOK), sniffing a Content-Type when none is set.
\* ok = FALSE is a failed write (the caller went away); body is what the
\* handler handed to the writer.
Write(wr, b, ok) ==
    [wr EXCEPT !.status = IF wr.status = 0 THEN StatusOK ELSE wr.status,
               !.contentType = IF wr.contentType = "unset" THEN "sniffed" ELSE wr.contentType,
               !.body = b,
               !.failed = ~ok]

----------------------------------------------------------------------------
(* What the environment can send *)

Methods == {"POST", "GET"}

HeaderNames == {"Authorization", "Accept"}

\* header multimaps: every name maps to the sequence of its values
InboundHeaders ==
    { [h \in HeaderNames |-> IF h = "Authorization" THEN <<"Bearer xyz">> ELSE <<>>],
      [h \in HeaderNames |-> IF h = "Accept" THEN <<"application/json", "text/plain">> ELSE <<>>] }

NoHeader == [h \in HeaderNames |-> <<>>]

InboundBodies == {RawBody("grant_type=client_credentials"), RawBody("")}

\* every method with every header set and every body
InboundRequests ==
    { [Method |-> m, Header |-> h, Body |-> b] : m \in Methods, h \in InboundHeaders, b \in InboundBodies }

Routes == {"/token", "/introspection"}

\* values a backend may send for each member of a JSON object
MemberValues(k) ==
    CASE k = "access_token"  -> {Absent, Str(""), Str("tok1"), Num(0)}
      [] k = "refresh_token" -> {Absent, Str("ref1")}
      [] k = "token_type"    -> {Absent, Str("Bearer")}
      [] k = "expires_in"    -> {Absent, Frac(0)} \cup {Num(i) : i \in 0..MaxExpires}
      [] k = "id_token"      -> {Absent, Str("old"), Num(0)}
      [] OTHER               -> {Absent, Str("openid")}

BackendObjects ==
    { [k \in MemberNames |->
         CASE k = "access_token"  -> a
           [] k = "refresh_token" -> rf
           [] k = "token_type"    -> tt
           [] k = "expires_in"    -> ex
           [] k = "id_token"      -> id
           [] OTHER               -> sc] :
        a  \in MemberValues("access_token"), rf \in MemberValues("refresh_token"),
        tt \in MemberValues("token_type"),   ex \in MemberValues("expires_in"),
        id \in MemberValues("id_token"),     sc \in MemberValues("scope") }

BackendBodies ==
    {RawBody("<html>Bad Gateway</html>"), RawBody(""), JsonNull, JsonScalar("[]")}
    \cup {JsonObject(m) : m \in BackendObjects}

BackendStatuses == {101, 200, 201, 300, 401}

ContentTypes == {"", "application/json"}

BackendResponses == [StatusCode : BackendStatuses, ContentType : ContentTypes, Body : BackendBodies]

NoResponse == [StatusCode |-> 0, ContentType |-> "", Body |-> NoBody]

NoRequest == [Method |-> "", URL |-> "", Header |-> NoHeader, Body |-> NoBody]

\* config.yaml as main reads it, with the -d flag
GoodBackend == [TokenEndpoint |-> "http://idp/token", IntrospectionEndpoint |-> "http://idp/introspect"]
BadBackend == [TokenEndpoint |-> "http://idp:port/token", IntrospectionEndpoint |-> "http://idp:port/introspect"]
Configs == [Backend : {GoodBackend, BadBackend}, debug : BOOLEAN]

\* url.Parse inside http.NewRequest rejects a non-numeric port
UrlParses(u) == u \in {GoodBackend.TokenEndpoint, GoodBackend.IntrospectionEndpoint}

----------------------------------------------------------------------------
(* main: the two handlers registered with http.HandleFunc *)

backendUrl(rt) ==
    IF rt = "/token" THEN config.Backend.TokenEndpoint ELSE config.Backend.IntrospectionEndpoint

\* A registration that binds the token modifier to both routes.
ModifierOnEveryRoute(rt) == "accessTokenToIdTokenResponseBodyModifier"

\* the responseBodyModifier bound to the route; "nil" for none
responseBodyModifier(rt) ==
    IF rt = "/token" THEN "accessTokenToIdTokenResponseBodyModifier" ELSE "nil"

\* responseBodyModifier(body) for the modifier named m
CallModifier(m, b) == accessTokenToIdTokenResponseBodyModifier(b)

----------------------------------------------------------------------------
(* The server after main has registered the handlers *)

Init ==
    /\ config \in Configs
    /\ pc = "idle"
    /\ route = "/token"
    /\ r = [Method |-> "", Header |-> NoHeader, Body |-> NoBody]
    /\ body = NoBody
    /\ backendReq = NoRequest
    /\ backendResponse = NoResponse
    /\ bodyStream = "none"
    /\ responseBody = NoBody
    /\ w = NewResponseWriter
    /\ backendCalls = 0
    /\ modifierCalls = 0
    /\ stderr = {}
    /\ trace = <<>>

\* the handler returns after http.Error(w, msg + err, code)
Fail(msg, err, code) ==
    /\ w' = HttpError(w, msg, err, code)
    /\ pc' = "returned"

\* ListenAndServe dispatches a request to the handler of its route, with a
\* fresh ResponseWriter.
Serve ==
    /\ pc = "idle"
    /\ \E rt \in Routes, req \in InboundRequests :
         /\ route' = rt
         /\ r' = req
    /\ pc' = "methodCheck"
    /\ UNCHANGED <<config, body, backendReq, backendResponse, bodyStream, responseBody, w,
                   backendCalls, modifierCalls, stderr, trace>>

\* The handler has returned: the response is complete and the request, its
\* writer and the handler's locals are gone.  The server waits again.
Return ==
    /\ pc = "returned"
    /\ pc' = "idle"
    /\ route' = "/token"
    /\ r' = [Method |-> "", Header |-> NoHeader, Body |-> NoBody]
    /\ body' = NoBody
    /\ backendReq' = NoRequest
    /\ backendResponse' = NoResponse
    /\ bodyStream' = "none"
    /\ responseBody' = NoBody
    /\ w' = NewResponseWriter
    /\ backendCalls' = 0
    /\ modifierCalls' = 0
    /\ stderr' = {}
    /\ trace' = <<>>
    /\ UNCHANGED config

\* A handler without the method test: every request is forwarded.
MethodCheckAnyMethod ==
    /\ pc = "methodCheck"
    /\ trace' = Append(trace, "methodCheck")
    /\ pc' = "readRequestBody"
    /\ UNCHANGED <<config, route, r, body, backendReq, backendResponse, bodyStream,
                   responseBody, w, backendCalls, modifierCalls, stderr>>

\* if r.Method == "POST" { ... } else { http.Error(405) }
MethodCheck ==
    /\ pc = "methodCheck"
    /\ trace' = Append(trace, "methodCheck")
    /\ IF r.Method = "POST"
       THEN /\ pc' = "readRequestBody"
            /\ UNCHANGED w
       ELSE Fail("(proxyingPostHandlerWithResponseModifier) Invalid request method", "",
                 StatusMethodNotAllowed)
    /\ UNCHANGED <<config, route, r, body, backendReq, backendResponse, bodyStream,
                   responseBody, backendCalls, modifierCalls, stderr>>

\* body, err := io.ReadAll(r.Body)
ReadRequestBody ==
    /\ pc = "readRequestBody"
    /\ trace' = Append(trace, "readRequestBody")
    /\ \E ok \in BOOLEAN :
         IF ok
         THEN /\ body' = r.Body
              /\ pc' = "newRequest"
              /\ UNCHANGED w
         ELSE /\ Fail("Error reading request body", "", StatusInternalServerError)
              /\ UNCHANGED body
    /\ UNCHANGED <<config, route, r, backendReq, backendResponse, bodyStream,
                   responseBody, backendCalls, modifierCalls, stderr>>

\* Request construction without line 72: the outbound request keeps the
\* empty header http.NewRequest gave it.
NewRequestWithoutHeaders ==
    /\ pc = "newRequest"
    /\ trace' = Append(trace, "newRequest")
    /\ IF UrlParses(backendUrl(route))
       THEN /\ backendReq' = [Method |-> "POST", URL |-> backendUrl(route),
                              Header |-> NoHeader, Body |-> body]
            /\ pc' = "clientDo"
            /\ UNCHANGED w
       ELSE /\ Fail("Error creating outbound request", "", StatusInternalServerError)
            /\ UNCHANGED backendReq
    /\ UNCHANGED <<config, route, r, body, backendResponse, bodyStream,
                   responseBody, backendCalls, modifierCalls, stderr>>

\* backendReq, err := http.NewRequest("POST", backendUrl, bytes.NewReader(body))
\* backendReq.Header = r.Header
NewRequest ==
    /\ pc = "newRequest"
    /\ trace' = Append(trace, "newRequest")
    /\ IF UrlParses(backendUrl(route))
       THEN /\ backendReq' = [Method |-> "POST", URL |-> backendUrl(route),
                              Header |-> r.Header, Body |-> body]
            /\ pc' = "clientDo"
            /\ UNCHANGED w
       ELSE /\ Fail("Error creating outbound request", "", StatusInternalServerError)
            /\ UNCHANGED backendReq
    /\ UNCHANGED <<config, route, r, body, backendResponse, bodyStream,
                   responseBody, backendCalls, modifierCalls, stderr>>

\* A backend call that is tried again after a transport failure.
ClientDoWithRetry ==
    /\ pc = "clientDo"
    /\ trace' = IF backendCalls = 0 THEN Append(trace, "clientDo") ELSE trace
    /\ backendCalls' = backendCalls + 1
    /\ \/ /\ IF backendCalls = 0
             THEN UNCHANGED <<pc, w>>
             ELSE Fail("Error connecting to backend: ", "dial tcp: connection refused",
                       StatusInternalServerError)
          /\ UNCHANGED <<backendResponse, bodyStream>>
       \/ /\ \E resp \in BackendResponses : backendResponse' = resp
          /\ bodyStream' = "open"
          /\ pc' = "readBackendBody"
          /\ UNCHANGED w
    /\ UNCHANGED <<config, route, r, body, backendReq, responseBody, modifierCalls, stderr>>

\* client := &http.Client{}; backendResponse, err := client.Do(backendReq)
\* Either the transport fails, or the backend answers with any status, any
\* Content-Type and any body; the answer's Body is then an open stream.
ClientDo ==
    /\ pc = "clientDo"
    /\ trace' = Append(trace, "clientDo")
    /\ backendCalls' = backendCalls + 1
    /\ \/ /\ Fail("Error connecting to backend: ", "dial tcp: connection refused",
                  StatusInternalServerError)
          /\ UNCHANGED <<backendResponse, bodyStream>>
       \/ /\ \E resp \in BackendResponses : backendResponse' = resp
          /\ bodyStream' = "open"
          /\ pc' = "readBackendBody"
          /\ UNCHANGED w
    /\ UNCHANGED <<config, route, r, body, backendReq, responseBody, modifierCalls, stderr>>

\* body, err = io.ReadAll(backendResponse.Body): the stream is read to EOF
\* or breaks; nothing here closes it.
ReadBackendBody ==
    /\ pc = "readBackendBody"
    /\ trace' = Append(trace, "readBackendBody")
    /\ \E ok \in BOOLEAN :
         IF ok
         THEN /\ body' = backendResponse.Body
              /\ bodyStream' = "eof"
              /\ pc' = "statusBranch"
              /\ UNCHANGED w
         ELSE /\ Fail("Error reading response from backend: ", "unexpected EOF",
                      StatusInternalServerError)
              /\ bodyStream' = "broken"
              /\ UNCHANGED body
    /\ UNCHANGED <<config, route, r, backendReq, backendResponse,
                   responseBody, backendCalls, modifierCalls, stderr>>

\* A status test that lets 3xx answers through to the success path
\* (StatusCode >= 400 in place of StatusCode >= 300).
StatusBranchFrom400 ==
    /\ pc = "statusBranch"
    /\ trace' = Append(trace, "statusBranch")
    /\ IF backendResponse.StatusCode >= 400 \/ backendResponse.StatusCode < 200
       THEN \E ok \in BOOLEAN :
              /\ w' = Write(w, body, ok)
              /\ stderr' = IF ok THEN stderr ELSE stderr \cup {"Failure sending response to client"}
              /\ pc' = "returned"
       ELSE /\ pc' = "debug"
            /\ UNCHANGED <<w, stderr>>
    /\ UNCHANGED <<config, route, r, body, backendReq, backendResponse, bodyStream,
                   responseBody, backendCalls, modifierCalls>>

\* if backendResponse.StatusCode >= 300 || backendResponse.StatusCode < 200 {
\*     _, err = w.Write(body); ...; return }
StatusBranch ==
    /\ pc = "statusBranch"
    /\ trace' = Append(trace, "statusBranch")
    /\ IF backendResponse.StatusCode >= 300 \/ backendResponse.StatusCode < 200
       THEN \E ok \in BOOLEAN :
              /\ w' = Write(w, body, ok)
              /\ stderr' = IF ok THEN stderr ELSE stderr \cup {"Failure sending response to client"}
              /\ pc' = "returned"
       ELSE /\ pc' = "debug"
            /\ UNCHANGED <<w, stderr>>
    /\ UNCHANGED <<config, route, r, body, backendReq, backendResponse, bodyStream,
                   responseBody, backendCalls, modifierCalls>>

\* if *debug { println(...) }: the backend's headers and body go to stderr
Debug ==
    /\ pc = "debug"
    /\ trace' = Append(trace, "debug")
    /\ stderr' = IF config.debug
                 THEN stderr \cup {"Debug enabled. Dumping response from backend:"}
                 ELSE stderr
    /\ pc' = "modifier"
    /\ UNCHANGED <<config, route, r, body, backendReq, backendResponse, bodyStream,
                   responseBody, w, backendCalls, modifierCalls>>

\* A handler that falls back to the backend's body when the modifier fails.
RunModifierIgnoringError ==
    /\ pc = "modifier"
    /\ trace' = Append(trace, "modifier")
    /\ IF responseBodyModifier(route) # "nil"
       THEN LET res == CallModifier(responseBodyModifier(route), body)
            IN  /\ modifierCalls' = modifierCalls + 1
                /\ responseBody' = IF res.err # "" THEN body ELSE res.out
       ELSE /\ responseBody' = body
            /\ UNCHANGED modifierCalls
    /\ pc' = "write"
    /\ UNCHANGED <<config, route, r, body, backendReq, backendResponse, bodyStream,
                   backendCalls, stderr, w>>

\* if responseBodyModifier != nil { responseBody, err = responseBodyModifier(body) ... }
\* else { responseBody = body }
RunModifier ==
    /\ pc = "modifier"
    /\ trace' = Append(trace, "modifier")
    /\ IF responseBodyModifier(route) # "nil"
       THEN LET res == CallModifier(responseBodyModifier(route), body)
            IN  /\ modifierCalls' = modifierCalls + 1
                /\ IF res.err # ""
                   THEN /\ Fail("Error processing request body modifier: ", res.err,
                                StatusInternalServerError)
                        /\ responseBody' = res.out
                   ELSE /\ responseBody' = res.out
                        /\ pc' = "write"
                        /\ UNCHANGED w
       ELSE /\ responseBody' = body
            /\ pc' = "write"
            /\ UNCHANGED <<w, modifierCalls>>
    /\ UNCHANGED <<config, route, r, body, backendReq, backendResponse, bodyStream,
                   backendCalls, stderr>>

\* w.Header().Set("Content-Type", backendResponse.Header.Get("Content-Type"))
\* _, err = w.Write(responseBody)
WriteResponse ==
    /\ pc = "write"
    /\ trace' = Append(trace, "write")
    /\ \E ok \in BOOLEAN :
         /\ w' = Write(SetContentType(w, backendResponse.ContentType), responseBody, ok)
         /\ stderr' = IF ok THEN stderr ELSE stderr \cup {"Failure sending response to client"}
    /\ pc' = "returned"
    /\ UNCHANGED <<config, route, r, body, backendReq, backendResponse, bodyStream,
                   responseBody, backendCalls, modifierCalls>>

Next ==
    \/ Serve
    \/ MethodCheck
    \/ ReadRequestBody
    \/ NewRequest
    \/ ClientDo
    \/ ReadBackendBody
    \/ StatusBranch
    \/ Debug
    \/ RunModifier
    \/ WriteResponse
    \/ Return

Spec == Init /\ [][Next]_vars

----------------------------------------------------------------------------
(* Properties *)

\* a status in [200,300)
IsSuccess(code) == code >= 200 /\ code < 300

Returned == pc = "returned"
LastStep == IF trace = <<>> THEN "" ELSE trace[Len(trace)]

\* the backend answered and its body was read to the end
BackendBodyRead == backendResponse # NoResponse /\ bodyStream = "eof"

\* the handler returned through the non-success branch / through the final write
RelayedNonSuccess == Returned /\ LastStep = "statusBranch"
WroteSuccess == Returned /\ LastStep = "write"

\* C1: for every backend response whose status is outside [200,300) the
\* response sent to the caller has the backend's status code and the
\* backend's body, and the transformer is not applied.
C1_NonSuccessPassesThrough ==
    RelayedNonSuccess =>
        /\ w.status = backendResponse.StatusCode
        /\ w.body = backendResponse.Body
        /\ modifierCalls = 0

\* C2: a request whose method is not POST is answered 405 and never causes
\* a backend call, on either route.
C2_NonPostRejected ==
    (pc # "idle" /\ r.Method # "POST") =>
        /\ backendCalls = 0
        /\ backendReq = NoRequest
        /\ pc \in {"methodCheck", "returned"}
        /\ Returned => (w.status = StatusMethodNotAllowed /\ w.body.kind = "error")

C2_Witness ==
    /\ Returned /\ r.Method = "GET" /\ route = "/introspection"
    /\ w.status = StatusMethodNotAllowed

\* a JSON object carrying access_token, refresh_token and token_type as
\* strings and expires_in as an integer, with id_token absent or a string
IsTokenObject(b) ==
    /\ b.kind = "json-object"
    /\ b.members["access_token"].t = "string"
    /\ b.members["refresh_token"].t = "string"
    /\ b.members["token_type"].t = "string"
    /\ b.members["expires_in"].t = "number"
    /\ b.members["id_token"].t \in {"absent", "string"}

\* the object {access_token: A, refresh_token: R, token_type: T, expires_in: E, id_token: A}
\* built from the members of b, and nothing else
Mirrored(b) ==
    JsonObject([k \in MemberNames |->
        IF k = "id_token" THEN b.members["access_token"]
        ELSE IF k \in FieldNames THEN b.members[k]
        ELSE Absent])

\* C3: on /token, a 2xx backend answer whose body is a token object with
\* access_token A, refresh_token R, token_type T, expires_in E is relayed as
\* the object with those four members unchanged and id_token equal to A.
C3_IdTokenMirrorsAccessToken ==
    (/\ Returned /\ route = "/token" /\ BackendBodyRead
     /\ IsSuccess(backendResponse.StatusCode)
     /\ IsTokenObject(backendResponse.Body)) =>
        /\ LastStep = "write"
        /\ w.body = Mirrored(backendResponse.Body)
        /\ w.body.members["id_token"] = w.body.members["access_token"]

\* an empty access_token overwrites the id_token the backend sent
C3_Witness ==
    /\ WroteSuccess /\ route = "/token"
    /\ IsTokenObject(backendResponse.Body)
    /\ backendResponse.Body.members["access_token"] = Str("")
    /\ backendResponse.Body.members["id_token"] = Str("old")
    /\ backendResponse.Body.members["scope"] # Absent
    /\ w.body.members["id_token"] = Str("")

\* a body json.Unmarshal cannot store in a TokenResponse: text that is not
\* JSON, a JSON value that is neither an object nor null, or an object with
\* a member of the wrong JSON type
Unparsable(b) ==
    \/ b.kind \in {"raw", "json-scalar"}
    \/ /\ b.kind = "json-object"
       /\ \/ \E k \in FieldNames \ {"expires_in"} : b.members[k].t \in {"number", "fraction"}
          \/ b.members["expires_in"].t \in {"string", "fraction"}

\* C4: on /token, a 2xx backend answer whose body cannot be parsed as a
\* TokenResponse gives the caller 500, and at no point of the request is the
\* backend body, or anything derived from it, handed to the caller.
C4_MalformedBodyGives500 ==
    (/\ pc # "idle" /\ route = "/token" /\ backendResponse # NoResponse
     /\ IsSuccess(backendResponse.StatusCode)
     /\ Unparsable(backendResponse.Body)) =>
        /\ w.body.kind \in {"none", "error"}
        /\ Returned => (w.status = StatusInternalServerError /\ w.body.kind = "error")

C4_Witness ==
    /\ Returned /\ route = "/token" /\ LastStep = "modifier"
    /\ backendResponse.StatusCode = 201
    /\ backendResponse.Body.kind = "json-object"
    /\ backendResponse.Body.members["expires_in"].t = "fraction"
    /\ w.status = StatusInternalServerError

\* C5: on a successful exchange the status code sent to the caller equals
\* the backend's status code, for every 2xx code.
C5_SuccessStatusRelayed ==
    WroteSuccess => w.status = backendResponse.StatusCode

\* C6: on /introspection, whenever the backend answered and its body was
\* read, the body written to the caller is the backend's body, whatever
\* the backend's status.
C6_IntrospectionBodyVerbatim ==
    (Returned /\ route = "/introspection" /\ BackendBodyRead) =>
        /\ w.body = backendResponse.Body
        /\ modifierCalls = 0

C6_Witness ==
    /\ Returned /\ route = "/introspection" /\ BackendBodyRead
    /\ IsSuccess(backendResponse.StatusCode)
    /\ IsTokenObject(backendResponse.Body)
    /\ backendResponse.Body.members["id_token"] = Absent
    /\ w.body = backendResponse.Body

\* C7: the request sent to the backend is a POST whose body is the inbound
\* body and whose header multimap is the inbound header multimap.
C7_OutboundRequestCopiesInbound ==
    backendCalls > 0 =>
        /\ backendReq.Method = "POST"
        /\ backendReq.URL = backendUrl(route)
        /\ backendReq.Body = r.Body
        /\ \A h \in HeaderNames : backendReq.Header[h] = r.Header[h]

C7_Witness ==
    /\ backendCalls = 1
    /\ r.Header["Accept"] = <<"application/json", "text/plain">>
    /\ backendReq.Header["Accept"] = <<"application/json", "text/plain">>
    /\ r.Body = RawBody("grant_type=client_credentials")
    /\ backendReq.Body = r.Body

\* C8: when the backend call returned a response, its body stream has been
\* closed by the time the handler returns, on every exit path.
C8_BackendBodyClosed ==
    (Returned /\ backendResponse # NoResponse) => bodyStream = "closed"

\* the steps of the handler in program order
StepOrder ==
    <<"methodCheck", "readRequestBody", "newRequest", "clientDo", "readBackendBody",
      "statusBranch", "debug", "modifier", "write">>

\* C9: the steps of a request run in program order, and the transformer is
\* invoked only after the status branch saw a 2xx status: never for a
\* rejected request, a failure before or during the backend call, or a
\* non-2xx backend status.
C9_StepsInOrder ==
    /\ Len(trace) <= Len(StepOrder)
    /\ \A i \in 1..Len(trace) : trace[i] = StepOrder[i]
    /\ modifierCalls <= 1
    /\ modifierCalls > 0 =>
           /\ r.Method = "POST"
           /\ BackendBodyRead
           /\ IsSuccess(backendResponse.StatusCode)
           /\ \E i \in 1..Len(trace) : trace[i] = "statusBranch"
    /\ (\/ w.status = StatusMethodNotAllowed
        \/ backendResponse = NoResponse
        \/ ~IsSuccess(backendResponse.StatusCode)) => modifierCalls = 0

C9_Witness ==
    /\ Returned /\ trace = StepOrder /\ modifierCalls = 1
    /\ backendResponse.StatusCode = 200

\* C10: a request makes at most one backend call; a failure of the inbound
\* body read, request construction, backend transport, backend body read or
\* transformation ends the request with 500; the first two with no backend
\* call at all.
C10_FailuresAreTerminal ==
    /\ backendCalls <= 1
    /\ (Returned /\ LastStep \in {"readRequestBody", "newRequest"}) =>
           (w.status = StatusInternalServerError /\ backendCalls = 0)
    /\ (Returned /\ LastStep \in {"clientDo", "readBackendBody", "modifier"}) =>
           (w.status = StatusInternalServerError /\ backendCalls = 1)
    /\ (w.status = StatusInternalServerError) => Returned

C10_Witness ==
    /\ Returned /\ LastStep = "clientDo" /\ backendResponse = NoResponse
    /\ backendCalls = 1 /\ w.status = StatusInternalServerError

====
